---- MODULE Spec2Model ----
(***************************************************************************)
(* Model of full_flow_batch.py: a script that pushes every entry of a      *)
(* manifest through register / ingest / extract / analyze and prints a     *)
(* report.  One action per block of the script; the remote platform, the   *)
(* filesystem and the uuid generator are the environment.                   *)
(***************************************************************************)
EXTENDS Integers, Sequences, FiniteSets, TLC

\* ---------------------------------------------------------------- bounds
MaxFiles == 2

\* ------------------------------------------------------------ characters
LowerChar(c) ==
    CASE c = "D" -> "d"
      [] c = "O" -> "o"
      [] c = "C" -> "c"
      [] c = "X" -> "x"
      [] c = "P" -> "p"
      [] c = "F" -> "f"
      [] OTHER   -> c

\* str.lower()
Lower(s) == [i \in 1..Len(s) |-> LowerChar(s[i])]

RECURSIVE ReplaceChar(_, _, _)
\* str.replace(old, new) for one-character old and new
ReplaceChar(s, old, new) ==
    IF s = <<>> THEN <<>>
    ELSE <<(IF Head(s) = old THEN new ELSE Head(s))>> \o ReplaceChar(Tail(s), old, new)

\* str.lstrip(".")
RECURSIVE LStripDot(_)
LStripDot(s) ==
    IF s # <<>> /\ Head(s) = "." THEN LStripDot(Tail(s)) ELSE s

\* ------------------------------------------------------------- pathlib
\* A path is [dir, stem, suffix]; suffix is "" or starts with a dot.
PathSuffix(p) == p.suffix
PathStem(p)   == p.stem
PathName(p)   == p.stem \o p.suffix

\* ------------------------------------------------------------- manifest
Docx == <<".", "d", "o", "c", "x">>
Pdf  == <<".", "p", "d", "f">>

NdaSolution == [id |-> "nda", key |-> "nda", title |-> "Non-Disclosure Agreement"]
DpaSolution == [id |-> "dpa", key |-> "dpa", title |-> "Data Processing Agreement"]

\* The descriptors a manifest is built from: the shapes of the four entries
\* of `files` (docx / pdf, nda / dpa) with upper-case, foreign and empty suffixes.
Descriptors ==
    { [path |-> [dir |-> "docs", stem |-> <<"a", " ", "b">>, suffix |-> Docx],
       contractType |-> "non_disclosure_agreement",
       solution |-> NdaSolution, perspective |-> "disclosing-party"],
      [path |-> [dir |-> "docs", stem |-> <<"a", "_", "b">>, suffix |-> <<".", "P", "D", "F">>],
       contractType |-> "non_disclosure_agreement",
       solution |-> NdaSolution, perspective |-> "disclosing-party"],
      [path |-> [dir |-> "docs", stem |-> <<"d", "p", "a">>, suffix |-> <<".", "D", "o", "c", "x">>],
       contractType |-> "data_processing_agreement",
       solution |-> DpaSolution, perspective |-> "data-controller"],
      [path |-> [dir |-> "docs", stem |-> <<"a", " ", "b">>, suffix |-> <<".", "X", "l", "s", "x">>],
       contractType |-> "non_disclosure_agreement",
       solution |-> NdaSolution, perspective |-> "disclosing-party"],
      [path |-> [dir |-> "docs", stem |-> <<"d", "p", "a">>, suffix |-> <<>>],
       contractType |-> "data_processing_agreement",
       solution |-> DpaSolution, perspective |-> "data-controller"] }

\* A manifest lists each document once, as `files` does.
Manifests ==
    UNION { { f \in [1..n -> Descriptors] :
                \A i, j \in 1..n : f[i] = f[j] => i = j } : n \in 0..MaxFiles }

\* MIME_BY_EXT with a spreadsheet entry added
MIME_BY_EXT_Xlsx(e) ==
    IF e = Docx THEN "application/vnd.openxmlformats-officedocument.wordprocessingml.document"
    ELSE IF e = Pdf THEN "application/pdf"
    ELSE IF e = <<".", "x", "l", "s", "x">>
         THEN "application/vnd.openxmlformats-officedocument.spreadsheetml.sheet"
    ELSE "None"

\* MIME_BY_EXT and dict.get: the MIME type, or "None"
MimeDocx == "application/vnd.openxmlformats-officedocument.wordprocessingml.document"
MimePdf  == "application/pdf"
MIME_BY_EXT(e) ==
    IF e = Docx THEN MimeDocx
    ELSE IF e = Pdf THEN MimePdf
    ELSE "None"

\* ---------------------------------------------------------- environment
\* .env as parsed by the loader: a key is absent ("None"), empty or set.
Envs ==
    { [VITE_SUPABASE_ANON_KEY |-> "anon", SUPABASE_SERVICE_ROLE_KEY |-> "role", SUPABASE_SERVICE_KEY |-> "None"],
      [VITE_SUPABASE_ANON_KEY |-> "anon", SUPABASE_SERVICE_ROLE_KEY |-> "",     SUPABASE_SERVICE_KEY |-> "svc"],
      [VITE_SUPABASE_ANON_KEY |-> "anon", SUPABASE_SERVICE_ROLE_KEY |-> "None", SUPABASE_SERVICE_KEY |-> "None"] }

\* Python truthiness of an optional string
Truthy(v) == v # "None" /\ v # ""

\* a or b
PyOr(a, b) == IF Truthy(a) THEN a ELSE b

\* Bytes of a file, as read_bytes() returns them.
FileBytes(p) == IF p.stem = <<"d", "p", "a">> THEN <<37, 80>> ELSE <<>>

\* What a failing urlopen raises (URLError, timeout, HTTPError).
Causes == {"timed out", "HTTP Error 500"}

\* What a 2xx ingest response can carry.
IngestBodies ==
    { [kind |-> "garbage", clausesCached |-> "None"],
      [kind |-> "array",   clausesCached |-> "None"],
      [kind |-> "object",  clausesCached |-> "absent"],
      [kind |-> "object",  clausesCached |-> "True"],
      [kind |-> "object",  clausesCached |-> "False"] }

\* json.loads: does it raise on this body?
JsonLoadsRaises(raw) == raw.kind = "garbage"

\* json.loads: the parsed Python value (a JSON array becomes a list, a JSON
\* object a dict)
JsonLoads(raw) ==
    [kind |-> (IF raw.kind = "object" THEN "dict" ELSE "list"),
     clausesCached |-> raw.clausesCached]

\* ingest_body.get("clausesCached"): raises AttributeError unless a dict
GetRaises(v) == v.kind # "dict"

\* dict.get(key) with default None
GetClausesCached(v) == IF v.clausesCached = "absent" THEN "None" ELSE v.clausesCached

\* ingest_body before its first assignment
Unbound == [kind |-> "unbound", clausesCached |-> "None"]

\* A call whose response body was not parsed
NoBody == [kind |-> "unread", clausesCached |-> "None"]

\* ------------------------------------------------------------- state
VARIABLES
    env,            \* the parsed .env
    service_key,    \* elevated credential
    anon_key,       \* restricted credential
    files,          \* the manifest
    pc,             \* position of the script
    idx,            \* index of `entry` in files
    ext, mime, data,
    ingestion_id,   \* id of the current document
    ingest_body,    \* parsed ingest response (module-level, survives the loop body)
    body,           \* raw analyze response
    results,        \* the result list
    uuids,          \* number of uuid4() values drawn so far
    calls,          \* log of the requests sent to the remote platform
    probes,         \* log of what path.exists() answered, per document
    artifacts,      \* files written under /tmp: set of [path, body, doc]
    resp,           \* the last response received: [call, raw]
    report          \* what was printed, or "None"

vars == <<env, service_key, anon_key, files, pc, idx, ext, mime, data,
          ingestion_id, ingest_body, body, results, uuids, calls, probes, artifacts,
          resp, report>>

locals == <<ext, mime, data, ingestion_id, ingest_body, body>>

Init ==
    /\ env \in Envs
    /\ files \in Manifests
    /\ service_key = "None"
    /\ anon_key = "None"
    /\ pc = "start"
    /\ idx = 0
    /\ ext = <<>>
    /\ mime = "None"
    /\ data = <<>>
    /\ ingestion_id = 0
    /\ ingest_body = Unbound
    /\ body = "None"
    /\ results = <<>>
    /\ uuids = 0
    /\ calls = <<>>
    /\ probes = <<>>
    /\ artifacts = {}
    /\ resp = [call |-> 0, raw |-> NoBody]
    /\ report = "None"

\* ------------------------------------------------------------ helpers
\* `continue` / end of the loop body: the next manifest entry, or the print
NextPc(i)  == IF i < Len(files) THEN "classify" ELSE "report"
NextIdx(i) == IF i < Len(files) THEN i + 1 ELSE i

\* results.insert(0, e)
ResultsPrepend(rs, e) == <<e>> \o rs

\* results.append(e)
ResultsAppend(rs, e) == Append(rs, e)

\* The urls of the four endpoints, relative to supabase_url
StageUrl(stage) ==
    CASE stage = "register" -> "/rest/v1/contract_ingestions"
      [] stage = "ingest"   -> "/functions/v1/ingest-contract"
      [] stage = "extract"  -> "/functions/v1/extract-clauses"
      [] stage = "analyze"  -> "/functions/v1/analyze-contract"

\* The extract block with the tag pasted from the ingest block
StageTagPasted(stage) ==
    CASE stage = "register" -> "ingestion-record"
      [] stage = "ingest"   -> "ingest-contract"
      [] stage = "extract"  -> "ingest-contract"
      [] stage = "analyze"  -> "analyze-contract"

\* The prefix of the error string each except block writes
StageTag(stage) ==
    CASE stage = "register" -> "ingestion-record"
      [] stage = "ingest"   -> "ingest-contract"
      [] stage = "extract"  -> "extract-clauses"
      [] stage = "analyze"  -> "analyze-contract"

\* `except urllib.error.HTTPError` in place of `except Exception`
CaughtHttpOnly(stage, exc) == exc = "HTTP Error 500"

\* `except Exception` catches whatever urlopen / read / json.loads raise
Caught(stage, exc) == TRUE

\* The extract block written like the register block, without the id
ErrorEntryExtractNoId(stage, p, exc, id) ==
    IF stage \in {"register", "extract"}
    THEN [path |-> p, error |-> <<StageTag(stage), exc>>]
    ELSE [path |-> p, error |-> <<StageTag(stage), exc>>, ingestionId |-> id]

\* The entry each except block appends
ErrorEntry(stage, p, exc, id) ==
    IF stage = "register"
    THEN [path |-> p, error |-> <<StageTag(stage), exc>>]
    ELSE [path |-> p, error |-> <<StageTag(stage), exc>>, ingestionId |-> id]

\* The ingest block without its `continue`
AfterExceptIngestFallsThrough(stage) ==
    IF stage = "ingest" THEN "extract" ELSE "continue"

\* The analyze block without its `continue`
AfterExceptAnalyzeFallsThrough(stage) ==
    IF stage = "analyze" THEN "finish" ELSE "continue"

\* The extract block retrying its call after the except block
AfterExceptExtractRetries(stage) ==
    IF stage = "extract" THEN "extract" ELSE "continue"

\* Where control goes after an except block has appended its entry
\* ("continue" in all four blocks)
AfterExcept(stage) == "continue"

\* The service key sent to the function endpoints as well
HeadersServiceEverywhere(stage) ==
    IF stage \in {"register", "analyze"}
    THEN [ContentType |-> "application/json",
          Authorization |-> <<"Bearer", service_key>>,
          apikey |-> service_key,
          Prefer |-> "return=representation"]
    ELSE [ContentType |-> "application/json",
          Authorization |-> <<"Bearer", anon_key>>,
          apikey |-> anon_key]

\* Request headers of each stage
Headers(stage) ==
    IF stage = "register"
    THEN [ContentType |-> "application/json",
          Authorization |-> <<"Bearer", service_key>>,
          apikey |-> service_key,
          Prefer |-> "return=representation"]
    ELSE [ContentType |-> "application/json",
          Authorization |-> <<"Bearer", anon_key>>,
          apikey |-> anon_key]

\* What a 2xx response of the record store or of extract-clauses can carry
PlainBodies ==
    { [kind |-> "garbage", clausesCached |-> "None"],
      [kind |-> "object",  clausesCached |-> "absent"] }

\* The body of the analyze response, kept as bytes
RawBytes == [kind |-> "bytes", clausesCached |-> "None"]

\* Every try block parsing its response as JSON
BodyParsedExtractToo(stage) == stage \in {"ingest", "extract"}

\* The stages whose try block hands the response body to json.loads
\* (line 122); the others only call resp.read()
BodyParsed(stage) == stage = "ingest"

\* The response object bound by `with urlopen(...) as resp` for the request
\* that is being appended to the log
Response(raw) == [call |-> Len(calls) + 1, raw |-> raw]

\* One line of the call log: the request, whether the try block got through,
\* and the response body when one was parsed
Call(stage, reqBody, ok, parsed) ==
    [doc |-> idx, stage |-> stage, url |-> StageUrl(stage),
     headers |-> Headers(stage), req |-> reqBody, ok |-> ok, resp |-> parsed]

\* The except blocks moving on without having appended the entry
FailAppendDeferred(stage, exc) ==
    /\ pc' = NextPc(idx) /\ idx' = NextIdx(idx)
    /\ UNCHANGED results

\* The except block of a stage: append the entry, then continue
Fail(stage, exc) ==
    IF Caught(stage, exc)
    THEN /\ results' = ResultsAppend(results,
                         ErrorEntry(stage, files[idx].path, exc, ingestion_id))
         /\ IF AfterExcept(stage) = "continue"
            THEN pc' = NextPc(idx) /\ idx' = NextIdx(idx)
            ELSE pc' = AfterExcept(stage) /\ idx' = idx
    ELSE /\ pc' = "crashed"
         /\ UNCHANGED <<results, idx>>

\* The start of the script without the check of lines 16-17
LoadEnvUnchecked ==
    /\ pc = "start"
    /\ anon_key' = env.VITE_SUPABASE_ANON_KEY
    /\ service_key' = PyOr(env.SUPABASE_SERVICE_ROLE_KEY, env.SUPABASE_SERVICE_KEY)
    /\ IF Len(files) = 0
       THEN pc' = "report" /\ idx' = idx
       ELSE pc' = "classify" /\ idx' = 1
    /\ UNCHANGED <<env, files, locals, results, uuids, calls, probes, artifacts, resp, report>>

\* ------------------------------------------------------------ actions
\* lines 13-17 and the entry into the for loop
LoadEnv ==
    /\ pc = "start"
    /\ anon_key' = env.VITE_SUPABASE_ANON_KEY
    /\ service_key' = PyOr(env.SUPABASE_SERVICE_ROLE_KEY, env.SUPABASE_SERVICE_KEY)
    /\ IF ~Truthy(service_key')
       THEN pc' = "aborted" /\ idx' = idx
       ELSE IF Len(files) = 0
            THEN pc' = "report" /\ idx' = idx
            ELSE pc' = "classify" /\ idx' = 1
    /\ UNCHANGED <<env, files, locals, results, uuids, calls, probes, artifacts, resp, report>>

\* The two checks of lines 54-63 in the other order
ClassifyOutcomeExtFirst(exists, p) ==
    IF ~Truthy(MIME_BY_EXT(Lower(PathSuffix(p)))) THEN "unsupported"
    ELSE IF ~exists THEN "file-not-found"
    ELSE "ok"

\* What lines 54-63 decide for a path: "file-not-found", "unsupported" or "ok"
ClassifyOutcome(exists, p) ==
    IF ~exists THEN "file-not-found"
    ELSE IF ~Truthy(MIME_BY_EXT(Lower(PathSuffix(p)))) THEN "unsupported"
    ELSE "ok"

\* lines 54-63
Classify ==
    /\ pc = "classify"
    /\ \E exists \in BOOLEAN :
         LET p   == files[idx].path
             out == ClassifyOutcome(exists, p)
         IN  /\ probes' = Append(probes, [doc |-> idx, exists |-> exists])
             /\ CASE out = "file-not-found" ->
                    /\ results' = ResultsAppend(results,
                                    [path |-> p, error |-> <<"file-not-found">>])
                    /\ pc' = NextPc(idx) /\ idx' = NextIdx(idx)
                    /\ UNCHANGED <<ext, mime>>
               [] out = "unsupported" ->
                    /\ ext' = Lower(PathSuffix(p))
                    /\ mime' = MIME_BY_EXT(ext')
                    /\ results' = ResultsAppend(results,
                                    [path |-> p, error |-> <<"unsupported-extension", ext'>>])
                    /\ pc' = NextPc(idx) /\ idx' = NextIdx(idx)
               [] OTHER ->
                    /\ ext' = Lower(PathSuffix(p))
                    /\ mime' = MIME_BY_EXT(ext')
                    /\ pc' = "prepare"
                    /\ UNCHANGED <<results, idx>>
    /\ UNCHANGED <<env, service_key, anon_key, files, data, ingestion_id,
                   ingest_body, body, uuids, calls, artifacts, resp, report>>

\* uuid.uuid4(): a value never returned before
Uuid4(n) == n + 1

\* lines 65-67: read the bytes (an OSError is not caught), draw the id
Prepare ==
    /\ pc = "prepare"
    /\ \E readable \in BOOLEAN :
         IF readable
         THEN /\ data' = FileBytes(files[idx].path)
              /\ ingestion_id' = Uuid4(uuids)
              /\ uuids' = uuids + 1
              /\ pc' = "register"
         ELSE /\ pc' = "crashed"
              /\ UNCHANGED <<data, ingestion_id, uuids>>
    /\ UNCHANGED <<env, service_key, anon_key, files, idx, ext, mime,
                   ingest_body, body, results, calls, probes, artifacts, resp, report>>

\* lines 69-77
Record ==
    [id |-> ingestion_id, status |-> "uploaded", storage_bucket |-> "ingestions",
     storage_path |-> <<"manual", ingestion_id, PathName(files[idx].path)>>,
     original_name |-> PathName(files[idx].path),
     mime_type |-> mime, file_size |-> Len(data)]

\* lines 79-95
Register ==
    /\ pc = "register"
    /\ \/ \E raw \in PlainBodies :
            /\ resp' = Response(raw)
            /\ IF BodyParsed("register") /\ JsonLoadsRaises(raw)
               THEN /\ calls' = Append(calls, Call("register", Record, FALSE, NoBody))
                    /\ Fail("register", "Expecting value")
               ELSE /\ calls' = Append(calls, Call("register", Record, TRUE, NoBody))
                    /\ pc' = "ingest"
                    /\ UNCHANGED <<results, idx>>
       \/ \E exc \in Causes :
            /\ calls' = Append(calls, Call("register", Record, FALSE, NoBody))
            /\ Fail("register", exc)
            /\ UNCHANGED resp
    /\ UNCHANGED <<env, service_key, anon_key, files, locals, uuids, probes, artifacts, report>>

\* The two markers exchanged
PrefixExchanged(e) == IF e = Docx THEN "PDF_FILE_BASE64:" ELSE "DOCX_FILE_BASE64:"

\* line 97
Prefix(e) == IF e = Docx THEN "DOCX_FILE_BASE64:" ELSE "PDF_FILE_BASE64:"

\* lines 98, 105-112; base64 text is kept as the tagged bytes
IngestRequest ==
    [ingestionId |-> ingestion_id,
     content |-> <<Prefix(ext), "b64", data>>,
     fileType |-> mime,
     fileName |-> PathName(files[idx].path),
     documentFormat |-> LStripDot(ext),
     contractType |-> files[idx].contractType]

\* lines 97-127
Ingest ==
    /\ pc = "ingest"
    /\ \/ \E raw \in IngestBodies :
            /\ resp' = Response(raw)
            /\ IF BodyParsed("ingest") /\ JsonLoadsRaises(raw)
               THEN /\ calls' = Append(calls, Call("ingest", IngestRequest, FALSE, raw))
                    /\ Fail("ingest", "Expecting value")
                    /\ UNCHANGED ingest_body
               ELSE /\ calls' = Append(calls, Call("ingest", IngestRequest, TRUE, raw))
                    /\ ingest_body' = JsonLoads(raw)
                    /\ pc' = "extract"
                    /\ UNCHANGED <<results, idx>>
       \/ \E exc \in Causes :
            /\ calls' = Append(calls, Call("ingest", IngestRequest, FALSE, NoBody))
            /\ Fail("ingest", exc)
            /\ UNCHANGED <<ingest_body, resp>>
    /\ UNCHANGED <<env, service_key, anon_key, files, ext, mime, data,
                   ingestion_id, body, uuids, probes, artifacts, report>>

\* lines 134-138
ExtractRequest ==
    [ingestionId |-> ingestion_id, contractType |-> files[idx].contractType,
     forceRefresh |-> FALSE]

\* lines 129-153
Extract ==
    /\ pc = "extract"
    /\ \/ \E raw \in PlainBodies :
            /\ resp' = Response(raw)
            /\ IF BodyParsed("extract") /\ JsonLoadsRaises(raw)
               THEN /\ calls' = Append(calls, Call("extract", ExtractRequest, FALSE, NoBody))
                    /\ Fail("extract", "Expecting value")
               ELSE /\ calls' = Append(calls, Call("extract", ExtractRequest, TRUE, NoBody))
                    /\ pc' = "analyze"
                    /\ UNCHANGED <<results, idx>>
       \/ \E exc \in Causes :
            /\ calls' = Append(calls, Call("extract", ExtractRequest, FALSE, NoBody))
            /\ Fail("extract", exc)
            /\ UNCHANGED resp
    /\ UNCHANGED <<env, service_key, anon_key, files, locals, uuids, probes, artifacts, report>>

\* lines 160-167
AnalyzeRequest ==
    [ingestionId |-> ingestion_id, reviewType |-> "full_summary",
     model |-> "openai-gpt-5-nano", contractType |-> files[idx].contractType,
     perspective |-> files[idx].perspective, selectedSolution |-> files[idx].solution]

\* lines 155-182; the platform answers with the analysis of that ingestion
Analyze ==
    /\ pc = "analyze"
    /\ \/ /\ calls' = Append(calls, Call("analyze", AnalyzeRequest, TRUE, NoBody))
          /\ body' = <<"analysis", ingestion_id>>
          /\ resp' = Response(RawBytes)
          /\ pc' = "finish"
          /\ UNCHANGED <<results, idx>>
       \/ \E exc \in Causes :
            /\ calls' = Append(calls, Call("analyze", AnalyzeRequest, FALSE, NoBody))
            /\ Fail("analyze", exc)
            /\ UNCHANGED <<body, resp>>
    /\ UNCHANGED <<env, service_key, anon_key, files, ext, mime, data,
                   ingestion_id, ingest_body, uuids, probes, artifacts, report>>

\* lines 184-185
OutPath(p) == <<"/tmp", ReplaceChar(PathStem(p), " ", "_") \o <<"-analysis.json">>>>

\* The success entry with an error key set to None
SuccessEntryWithError(p, id, ib, out) ==
    [path |-> p, ingestionId |-> id, error |-> <<"None">>,
     clausesCached |-> GetClausesCached(ib), output |-> out]

\* lines 188-195
SuccessEntry(p, id, ib, out) ==
    [path |-> p, ingestionId |-> id,
     clausesCached |-> GetClausesCached(ib), output |-> out]

\* lines 184-195: write the artifact (an OSError is not caught), then build
\* and append the entry; .get on a non-dict raises past the loop
Finish ==
    /\ pc = "finish"
    /\ LET p   == files[idx].path
           out == OutPath(p)
       IN \E writable \in BOOLEAN :
            IF ~writable
            THEN /\ pc' = "crashed"
                 /\ UNCHANGED <<artifacts, results, idx>>
            ELSE /\ artifacts' = {a \in artifacts : a.path # out}
                                   \cup {[path |-> out, body |-> body, doc |-> idx]}
                 /\ IF GetRaises(ingest_body)
                    THEN /\ pc' = "crashed"
                         /\ UNCHANGED <<results, idx>>
                    ELSE /\ results' = ResultsAppend(results,
                                         SuccessEntry(p, ingestion_id, ingest_body, out))
                         /\ pc' = NextPc(idx) /\ idx' = NextIdx(idx)
    /\ UNCHANGED <<env, service_key, anon_key, files, locals, uuids, calls, probes, resp, report>>

\* json.dumps of one value of an entry: None, True, False become JSON literals
JsonValue(v) ==
    CASE v = "None"  -> "null"
      [] v = "True"  -> "true"
      [] v = "False" -> "false"

\* json.dumps(results)
JsonDumps(rs) ==
    [i \in 1..Len(rs) |->
        IF "clausesCached" \in DOMAIN rs[i]
        THEN [rs[i] EXCEPT !.clausesCached = JsonValue(@)]
        ELSE rs[i]]

\* line 197
Report ==
    /\ pc = "report"
    /\ report' = JsonDumps(results)
    /\ pc' = "done"
    /\ UNCHANGED <<env, service_key, anon_key, files, idx, locals, results,
                   uuids, calls, probes, artifacts, resp>>

Next ==
    \/ LoadEnv
    \/ Classify
    \/ Prepare
    \/ Register
    \/ Ingest
    \/ Extract
    \/ Analyze
    \/ Finish
    \/ Report

Spec == Init /\ [][Next]_vars

\* ================================================================ claims
Stages == <<"register", "ingest", "extract", "analyze">>

\* The requests issued for manifest entry i, in order
CallsOf(i) == SelectSeq(calls, LAMBDA c : c.doc = i)

Last(q) == q[Len(q)]

AllOk(cs) == \A k \in 1..Len(cs) : cs[k].ok

\* Manifest entry i has left the loop body by `continue` or by its end
Finished(i) == i \in 1..Len(files) /\ (i < idx \/ pc \in {"report", "done"})

\* path.exists() answered for entry i, and what it answered
Probed(i) == \E k \in 1..Len(probes) : probes[k].doc = i
Exists(i) == \E k \in 1..Len(probes) : probes[k].doc = i /\ probes[k].exists

Supported(i) == Lower(files[i].path.suffix) \in {Docx, Pdf}

HasError(e)  == "error" \in DOMAIN e
HasOutput(e) == "output" \in DOMAIN e
HasId(e)     == "ingestionId" \in DOMAIN e

\* C1: the calls issued for a document are a prefix of register, ingest,
\* extract, analyze, every call but the last one succeeded, and calls are
\* issued only for manifest entries.
C1_CallsFormPrefix ==
    /\ \A k \in 1..Len(calls) : calls[k].doc \in 1..Len(files)
    /\ \A i \in 1..Len(files) :
         LET cs == CallsOf(i)
         IN  /\ Len(cs) <= Len(Stages)
             /\ \A k \in 1..Len(cs) :
                  /\ cs[k].stage = Stages[k]
                  /\ (k < Len(cs) => cs[k].ok)

\* C1 witness: a finished document whose ingest failed after a successful
\* registration, with nothing issued after it
C1_Witness ==
    \E i \in 1..Len(files) :
        /\ Finished(i)
        /\ Len(CallsOf(i)) = 2
        /\ CallsOf(i)[1].ok /\ ~CallsOf(i)[2].ok

\* A step in which the request of the current document fails
StageFails ==
    /\ pc \in {"register", "ingest", "extract", "analyze"}
    /\ Len(calls') = Len(calls) + 1
    /\ ~Last(calls').ok

\* C2: a failing remote stage appends the error entry of the current
\* document and moves on to the next manifest entry (or to the report after
\* the last one); the run is never ended by a failed request.
C2_FailureIsLocal ==
    /\ [][StageFails =>
            /\ results' = Append(results, Last(results'))
            /\ Last(results').path = files[idx].path
            /\ HasError(Last(results'))
            /\ pc' = (IF idx < Len(files) THEN "classify" ELSE "report")
            /\ (idx < Len(files) => idx' = idx + 1)]_vars
    /\ [](pc = "crashed" => AllOk(CallsOf(idx)))

\* C2 witness: the first document failed at a remote stage and the second
\* one was then taken through all four stages
C2_Witness ==
    /\ Len(files) >= 2
    /\ Len(results) >= 2
    /\ CallsOf(1) # <<>> /\ ~Last(CallsOf(1)).ok
    /\ HasError(results[1])
    /\ HasOutput(results[2])

\* C3: the result list holds one entry per document that has left the loop
\* body, so the finished batch reports exactly one entry per manifest entry.
C3_OneEntryPerDocument ==
    /\ pc \in {"report", "done"} => Len(results) = Len(files)
    /\ pc = "done" => Len(report) = Len(files)
    /\ pc \in {"classify", "prepare", "register", "ingest", "extract",
               "analyze", "finish", "crashed"} => Len(results) = idx - 1

\* C3 witness: a finished batch with a failed and a successful document
C3_Witness ==
    /\ pc = "done"
    /\ Len(files) >= 2
    /\ \E i, j \in 1..Len(results) : HasError(results[i]) /\ HasOutput(results[j])

\* C4 (as claimed): the entry of a document whose registration failed
\* carries the id that was generated for it.
C4_RegisterFailureCarriesId ==
    \A i \in 1..Len(results) :
        (Len(CallsOf(i)) = 1 /\ ~CallsOf(i)[1].ok)
            => /\ HasId(results[i])
               /\ results[i].ingestionId = CallsOf(i)[1].req.id

\* C5: when a stage after a successful registration fails, the entry has the
\* id of the registration request, an error and no output.
C5_LaterFailureCarriesId ==
    \A i \in 1..Len(results) :
        LET cs == CallsOf(i)
        IN  (Len(cs) >= 2 /\ cs[1].ok /\ ~Last(cs).ok)
                => /\ HasId(results[i])
                   /\ results[i].ingestionId = cs[1].req.id
                   /\ HasError(results[i])
                   /\ ~HasOutput(results[i])
                   /\ "clausesCached" \notin DOMAIN results[i]

\* C5 witness: a document that failed at extract, and one that failed at analyze
C5_Witness ==
    /\ \E i \in 1..Len(results) :
          Len(CallsOf(i)) = 3 /\ ~Last(CallsOf(i)).ok /\ HasId(results[i])
    /\ \E i \in 1..Len(results) :
          Len(CallsOf(i)) = 4 /\ ~Last(CallsOf(i)).ok /\ HasId(results[i])

\* The tag the taxonomy gives to a stage
TaxonomyTag(stage) ==
    CASE stage = "register" -> "ingestion-record"
      [] stage = "ingest"   -> "ingest-contract"
      [] stage = "extract"  -> "extract-clauses"
      [] stage = "analyze"  -> "analyze-contract"

\* C6: the tag of an error entry is file-not-found or unsupported-extension
\* when no call was issued, and otherwise the tag of the last call issued,
\* which is the one that failed.
C6_TagNamesFailedStage ==
    \A i \in 1..Len(results) :
        HasError(results[i]) =>
            LET cs  == CallsOf(i)
                tag == results[i].error[1]
            IN  IF cs = <<>>
                THEN tag \in {"file-not-found", "unsupported-extension"}
                ELSE /\ ~Last(cs).ok
                     /\ tag = TaxonomyTag(Last(cs).stage)

\* C6 witness: an extract failure next to a classification failure
C6_Witness ==
    /\ \E i \in 1..Len(results) :
          HasError(results[i]) /\ Len(CallsOf(i)) = 3
    /\ \E i \in 1..Len(results) :
          HasError(results[i]) /\ CallsOf(i) = <<>>

\* C7: an existing file with a foreign extension gets exactly the entry
\* {path, unsupported-extension:<lower-cased ext>} and no call.
C7_UnsupportedExtension ==
    \A i \in 1..Len(files) :
        (Exists(i) /\ ~Supported(i)) =>
            /\ CallsOf(i) = <<>>
            /\ i <= Len(results)
            /\ results[i] = [path |-> files[i].path,
                             error |-> <<"unsupported-extension",
                                         Lower(files[i].path.suffix)>>]

\* C7 witness: an existing spreadsheet with an upper-case letter in its suffix
C7_Witness ==
    \E i \in 1..Len(files) :
        /\ Finished(i) /\ Exists(i)
        /\ files[i].path.suffix = <<".", "X", "l", "s", "x">>

\* C8: a missing file gets the entry {path, file-not-found} and no call,
\* whatever its extension.
C8_FileNotFound ==
    \A i \in 1..Len(files) :
        (Probed(i) /\ ~Exists(i)) =>
            /\ CallsOf(i) = <<>>
            /\ i <= Len(results)
            /\ results[i] = [path |-> files[i].path, error |-> <<"file-not-found">>]

\* C8 witness: a missing file with a foreign extension
C8_Witness ==
    \E i \in 1..Len(files) :
        /\ Finished(i) /\ Probed(i) /\ ~Exists(i) /\ ~Supported(i)

\* The artifact of entry i has been written, or the entry has left the loop body
PastWrite(i) == Finished(i) \/ (idx = i /\ \E a \in artifacts : a.doc = i)

\* The clausesCached member of the ingest response of entry i
\* (None when the response has no such member)
ResponseFlag(i) ==
    LET r == CallsOf(i)[2].resp
    IN  IF r.clausesCached = "absent" THEN "None" ELSE r.clausesCached

\* C9 (as claimed): a document whose four calls all succeeded has its
\* success entry, with output, id and no error, once its artifact is written.
C9_SuccessEntryAppended ==
    \A i \in 1..Len(files) :
        (Len(CallsOf(i)) = 4 /\ AllOk(CallsOf(i)) /\ PastWrite(i) /\ pc # "finish")
            => /\ i <= Len(results)
               /\ HasOutput(results[i])
               /\ results[i].output # "None"
               /\ ~HasError(results[i])
               /\ results[i].ingestionId = CallsOf(i)[1].req.id
               /\ results[i].clausesCached = ResponseFlag(i)

\* C10: the i-th entry of the printed report is the entry of the i-th
\* manifest document.
C10_ReportInManifestOrder ==
    pc = "done" =>
        /\ Len(report) = Len(files)
        /\ \A i \in 1..Len(report) : report[i].path = files[i].path

\* C10 witness: a printed report over two different paths, one failed and
\* one successful
C10_Witness ==
    /\ pc = "done"
    /\ Len(report) >= 2
    /\ report[1].path # report[2].path
    /\ \E i, j \in 1..Len(report) : HasError(report[i]) /\ HasOutput(report[j])

\* The documents for which uuid4() has been called
Identified(i) == CallsOf(i) # <<>> \/ (i = idx /\ pc = "register")

\* C11 (as claimed): one id is drawn per document that gets past
\* classification, before its first call, ids of different documents differ,
\* and that id is the record's id, part of its storage path, the ingestionId
\* of every later request and the ingestionId of the document's entry.
C11_OneIdThroughout ==
    /\ uuids = Cardinality({i \in 1..Len(files) : Identified(i)})
    /\ \A i \in 1..Len(files) :
         LET cs == CallsOf(i)
         IN  cs # <<>> =>
               LET id == cs[1].req.id
               IN  /\ cs[1].req.storage_path = <<"manual", id, PathName(files[i].path)>>
                   /\ \A k \in 2..Len(cs) : cs[k].req.ingestionId = id
                   /\ \A j \in 1..Len(files) :
                        (j # i /\ CallsOf(j) # <<>>) => CallsOf(j)[1].req.id # id
                   /\ i <= Len(results) =>
                        (HasId(results[i]) /\ results[i].ingestionId = id)

\* C12 (as claimed): the run is never ended after the four calls of a
\* document have all returned successfully, whatever the response bodies.
C12_NoRemoteFaultEscapes ==
    ~ ( /\ pc = "crashed"
        /\ Len(CallsOf(idx)) = 4
        /\ AllOk(CallsOf(idx))
        /\ \E a \in artifacts : a.doc = idx )

\* The manifest entries a log of calls or probes is about are in manifest order
InOrder(log) == \A k \in 1..(Len(log) - 1) : log[k].doc <= log[k + 1].doc

\* C13: when anything is done for manifest entry i (existence probe, id,
\* request, artifact), every earlier entry already has its result entry, and
\* nothing is done for an entry after the current one.
C13_StrictSequencing ==
    /\ InOrder(calls) /\ InOrder(probes)
    /\ \A k \in 1..Len(calls)  : calls[k].doc <= idx
    /\ \A k \in 1..Len(probes) : probes[k].doc <= idx
    /\ \A a \in artifacts : a.doc <= idx
    /\ \A i \in 1..Len(files) :
         (Probed(i) \/ CallsOf(i) # <<>>) =>
             \A j \in 1..(i - 1) :
                 /\ j <= Len(results)
                 /\ results[j].path = files[j].path

\* C13 witness: the second document is at its ingest call after the first
\* one failed at a remote stage
C13_Witness ==
    /\ idx = 2 /\ pc = "ingest"
    /\ Len(results) = 1
    /\ CallsOf(1) # <<>> /\ ~Last(CallsOf(1)).ok
    /\ CallsOf(2) # <<>>

\* C14: no endpoint is called twice for the same manifest entry, also after
\* a failed call.
C14_NoRetries ==
    \A k, l \in 1..Len(calls) :
        (calls[k].doc = calls[l].doc /\ calls[k].url = calls[l].url) => k = l

\* C14 witness: a document left the loop after a failed extract call
C14_Witness ==
    \E i \in 1..Len(files) :
        /\ Finished(i)
        /\ Len(CallsOf(i)) = 3
        /\ ~CallsOf(i)[3].ok

\* The elevated credential the configuration holds ("None" when it holds none)
ElevatedCredential ==
    IF env.SUPABASE_SERVICE_ROLE_KEY \notin {"None", ""}
    THEN env.SUPABASE_SERVICE_ROLE_KEY
    ELSE env.SUPABASE_SERVICE_KEY

\* C15: the record-creation request carries the elevated credential, the
\* three function requests carry the restricted one, the two are never
\* exchanged, and bearer token and apikey of a request are the same key.
C15_CredentialTiers ==
    \A k \in 1..Len(calls) :
        LET c   == calls[k]
            key == IF c.url = "/rest/v1/contract_ingestions"
                   THEN ElevatedCredential
                   ELSE env.VITE_SUPABASE_ANON_KEY
        IN  /\ c.headers.apikey = key
            /\ c.headers.Authorization = <<"Bearer", key>>
            /\ (c.url = "/rest/v1/contract_ingestions") = (c.stage = "register")
            /\ ElevatedCredential # env.VITE_SUPABASE_ANON_KEY

\* C15 witness: all four endpoints were called with the elevated credential
\* taken from the second configuration key
C15_Witness ==
    /\ env.SUPABASE_SERVICE_ROLE_KEY = ""
    /\ \E i \in 1..Len(files) : Len(CallsOf(i)) = 4

\* C16: with no elevated credential in the configuration nothing is probed,
\* requested, appended, written or printed, and the run ends aborted.
C16_AbortWithoutCredential ==
    ElevatedCredential \in {"None", ""} =>
        /\ pc \in {"start", "aborted"}
        /\ calls = <<>> /\ probes = <<>> /\ uuids = 0
        /\ results = <<>> /\ artifacts = {} /\ report = "None"

\* C16 witness: the run was aborted with a non-empty manifest
C16_Witness ==
    /\ pc = "aborted"
    /\ ElevatedCredential \in {"None", ""}
    /\ Len(files) >= 1

C18_OutputXorError ==
    \A i \in 1..Len(results) :
        LET e  == results[i]
            cs == CallsOf(i)
        IN  /\ HasOutput(e) # HasError(e)
            /\ HasOutput(e) = ("clausesCached" \in DOMAIN e)
            /\ HasOutput(e) = (Len(cs) = 4 /\ AllOk(cs))
            /\ HasError(e) = (cs = <<>> \/ ~Last(cs).ok)

\* C18 witness: entries of a successful document, of one that failed at
\* classification and of one that failed at a remote stage
C18_Witness ==
    /\ \E i \in 1..Len(results) : HasOutput(results[i])
    /\ \E i \in 1..Len(results) : HasError(results[i]) /\ CallsOf(i) = <<>>

\* C19: an ingest request is either (DOCX marker, office MIME type, docx)
\* for a file whose lower-cased suffix is .docx, or (PDF marker, pdf MIME
\* type, pdf) for one whose lower-cased suffix is .pdf.
C19_IngestFormatAgrees ==
    \A k \in 1..Len(calls) :
        calls[k].stage = "ingest" =>
            LET r == calls[k].req
                e == Lower(files[calls[k].doc].path.suffix)
            IN  \/ /\ e = <<".", "d", "o", "c", "x">>
                   /\ r.content[1] = "DOCX_FILE_BASE64:"
                   /\ r.fileType = "application/vnd.openxmlformats-officedocument.wordprocessingml.document"
                   /\ r.documentFormat = <<"d", "o", "c", "x">>
                \/ /\ e = <<".", "p", "d", "f">>
                   /\ r.content[1] = "PDF_FILE_BASE64:"
                   /\ r.fileType = "application/pdf"
                   /\ r.documentFormat = <<"p", "d", "f">>

\* C19 witness: ingest requests for a .Docx and for a .PDF file
C19_Witness ==
    /\ \E k \in 1..Len(calls) :
          /\ calls[k].stage = "ingest"
          /\ files[calls[k].doc].path.suffix = <<".", "D", "o", "c", "x">>
    /\ \E k \in 1..Len(calls) :
          /\ calls[k].stage = "ingest"
          /\ files[calls[k].doc].path.suffix = <<".", "P", "D", "F">>

\* A step of a stage in which urlopen returned a response (2xx)
Answered == Len(calls') = Len(calls) + 1 /\ resp'.call = Len(calls')

\* C20: an ingest response that is not JSON ends the document with an
\* ingest-contract entry carrying the id and with no later call, while a
\* register or extract response lets the document advance to the next stage
\* without an entry, whatever its body.
C20_OnlyIngestBodyParsed ==
    /\ [](\A k \in 1..Len(calls) :
            (calls[k].stage = "ingest" /\ calls[k].resp.kind = "garbage") =>
                LET i == calls[k].doc
                IN  /\ Last(CallsOf(i)) = calls[k]
                    /\ i <= Len(results)
                    /\ HasError(results[i])
                    /\ results[i].error[1] = "ingest-contract"
                    /\ HasId(results[i])
                    /\ results[i].ingestionId = calls[k].req.ingestionId)
    /\ [][(pc = "register" /\ Answered) =>
             (pc' = "ingest" /\ idx' = idx /\ results' = results)]_vars
    /\ [][(pc = "extract" /\ Answered) =>
             (pc' = "analyze" /\ idx' = idx /\ results' = results)]_vars

\* C20 witness: one document ended at an unparseable ingest response, and
\* another is at analyze after an unparseable extract response
C20_Witness ==
    /\ \E k \in 1..Len(calls) :
          /\ calls[k].stage = "ingest" /\ calls[k].resp.kind = "garbage"
          /\ calls[k].doc < idx
    /\ pc = "analyze"
    /\ resp.call = Len(calls)
    /\ resp.raw.kind = "garbage"
====
